---- MODULE Spec2Model ----
(***************************************************************************)
(* Model of the VoiceGuard deepfake-detection client.                      *)
(*                                                                         *)
(*   services/geminiService.ts  analyzeAudio / attemptAnalysis: the        *)
(*                              retry + fallback ladder around the remote  *)
(*                              generateContent call                       *)
(*   App.tsx                    handleAudioReady / handleSubmit: the       *)
(*                              caller and its user-facing messages        *)
(*   components/AudioUploader   handleFile, the recorder, clearAudio and   *)
(*                              the pending base64 conversions             *)
(*                                                                         *)
(* Spec drives the orchestrator and the App with every remote answer,      *)
(* UiSpec adds the uploader, ConcSpec calls analyzeAudio from several      *)
(* callers at once.                                                        *)
(*                                                                         *)
(* Strings of the program are sequences of lexemes.  String.includes is    *)
(* a search of that sequence, JSON.parse is a parser of it.  Confidence    *)
(* values are kept in hundredths (0.92 is 92) because the model has        *)
(* integers only.                                                          *)
(***************************************************************************)
EXTENDS Integers, Sequences, FiniteSets, TLC

\* Number of analyzeAudio invocations (closures) that can exist at once.
NumReqs == 2
\* Longest provider error message / junk response body, in lexemes.
MaxMsgLen == 2
\* Most FileReader conversions of one sample that are pending at once.
MaxPending == 1

Reqs == 1..NumReqs

----------------------------------------------------------------------------
(* Strings                                                                 *)

SeqsUpTo(S, n) == UNION {[1..k -> S] : k \in 0..n}

\* The substrings the two catch blocks look for, and one word that is none
\* of them.
Words == {"429", "quota", "resource exhausted", "safety", "blocked", "internal"}

\* error.message of a provider error.  <<>> stands for an absent or empty
\* message: both become '' under `error?.message || ''`.
Messages == SeqsUpTo(Words, MaxMsgLen)

includes(msg, s) == \E i \in 1..Len(msg) : msg[i] = s

----------------------------------------------------------------------------
(* AnalysisResult values and JSON                                          *)

\* Number literals that can appear in a body, with their value in
\* hundredths.
NumberLiterals == {"0", "0.92", "1", "1.7", "429"}
NumberOf(lit) ==
    CASE lit = "0"    -> 0
      [] lit = "0.92" -> 92
      [] lit = "1"    -> 100
      [] lit = "1.7"  -> 170
      [] lit = "429"  -> 42900

Classifications == {"AI_GENERATED", "HUMAN", "UNKNOWN"}
Explanations == {"flat pitch, no breath artifacts"}

\* A parsed JSON value.  kind "object" carries the three fields (a field
\* that is missing from the object is "undefined" / -1), kind "number"
\* carries the number in confidence, kind "null" carries nothing.
JsonValue(kind, c, n, e) ==
    [kind |-> kind, classification |-> c, confidence |-> n, explanation |-> e]
\* The JavaScript value null (also what the JSON text null parses to).
JsNull == JsonValue("null", "undefined", -1, "undefined")

ObjectText(c, lit, e) ==
    <<"{", "classification", c, "confidence", lit, "explanation", e, "}">>

ObjectTexts ==
    {ObjectText(c, lit, e) :
        c \in Classifications, lit \in NumberLiterals \ {"429"}, e \in Explanations}

\* Bodies cut off before the closing brace (output-length cap reached).
TruncatedTexts == {SubSeq(t, 1, Len(t) - 1) : t \in ObjectTexts}

\* response.text.  <<>> stands for an absent or empty text: both are falsy.
Texts ==
    Messages \cup ObjectTexts \cup TruncatedTexts \cup {<<"null">>, <<"{", "}">>}

IsObjectText(t) ==
    /\ Len(t) = 8
    /\ t[1] = "{" /\ t[2] = "classification" /\ t[4] = "confidence"
    /\ t[5] \in NumberLiterals /\ t[6] = "explanation" /\ t[8] = "}"

IsJson(t) ==
    \/ t = <<"null">>
    \/ t = <<"{", "}">>
    \/ Len(t) = 1 /\ t[1] \in NumberLiterals
    \/ IsObjectText(t)

\* The confidence is read as an integer (parseInt instead of a number).
JSONparseInteger(t) ==
    CASE t = <<"null">>     -> JsNull
      [] t = <<"{", "}">>   -> JsonValue("object", "undefined", -1, "undefined")
      [] Len(t) = 1 /\ t[1] \in NumberLiterals
                            -> JsonValue("number", "undefined", NumberOf(t[1]), "undefined")
      [] IsObjectText(t)    -> JsonValue("object", t[3], (NumberOf(t[5]) \div 100) * 100, t[7])

\* JSON.parse(text) when it returns.  No field is checked or converted:
\* the value is whatever the text denotes.
JSONparse(t) ==
    CASE t = <<"null">>     -> JsNull
      [] t = <<"{", "}">>   -> JsonValue("object", "undefined", -1, "undefined")
      [] Len(t) = 1 /\ t[1] \in NumberLiterals
                            -> JsonValue("number", "undefined", NumberOf(t[1]), "undefined")
      [] IsObjectText(t)    -> JsonValue("object", t[3], NumberOf(t[5]), t[7])

\* The message of the SyntaxError JSON.parse throws.  ECMA-262 leaves the
\* text to the engine.  "quoting" engines (current V8) repeat the source
\* around an unexpected token; "plain" engines give a fixed text.
Engines == {"quoting", "plain"}

SyntaxErrorMessage(eng, t) ==
    IF eng = "plain" THEN <<"JSON.parse: unexpected character">>
    ELSE IF t[1] \in NumberLiterals
         THEN <<"Unexpected non-whitespace character after JSON">>
    ELSE IF t[1] = "{"
         THEN <<"Unexpected end of JSON input">>
    ELSE <<"Unexpected token">> \o t \o <<"is not valid JSON">>

----------------------------------------------------------------------------
(* Errors and remote outcomes                                              *)

Err(name, message) == [name |-> name, message |-> message]
NoError == Err("none", <<>>)

\* What the awaited generateContent promise settles with.
Response(t)  == [type |-> "response", text |-> t, error |-> NoError]
Rejection(m) == [type |-> "error", text |-> <<>>, error |-> Err("ApiError", m)]
NoOutcome    == [type |-> "none", text |-> <<>>, error |-> NoError]

Outcomes == {Response(t) : t \in Texts} \cup {Rejection(m) : m \in Messages}

----------------------------------------------------------------------------
(* Inference orchestrator: services/geminiService.ts                       *)

Pro   == "gemini-3-pro-preview"
Flash == "gemini-3-flash-preview"
ProBudget   == 2048
FlashBudget == 1024

\* The App's audio payloads; NullAudio is audioData = null.
AudioDatas ==
    { [base64 |-> "UklGRg", mimeType |-> "audio/wav"],
      [base64 |-> "GkXfow", mimeType |-> "audio/webm"] }
NullAudio == [base64 |-> "null", mimeType |-> "null"]
Null == "null"

VARIABLES
    engine,        \* the JavaScript engine the program runs on
    orch,          \* orch[r]: one analyzeAudio invocation (closure) or idle
    audioData,     \* App state
    isProcessing,
    result,
    error,
    awaiting,      \* the invocation handleSubmit is suspended on, 0 if none
    file,          \* AudioUploader state
    audioUrl,
    isRecording,
    recorder,      \* state of mediaRecorderRef.current
    stopEvents,    \* stop events of a recorder not yet dispatched to onstop
    micPending,    \* startRecording is suspended on getUserMedia
    conversions    \* conversions[d]: convertToBase64 calls of d not yet settled

appVars == <<audioData, isProcessing, result, error, awaiting>>
uploaderVars ==
    <<file, audioUrl, isRecording, recorder, stopEvents, micPending, conversions>>
vars == <<engine, orch, appVars, uploaderVars>>

\* An invocation that does not exist (not started, or its promise consumed).
Idle ==
    [ pc         |-> "idle",
      base64Data |-> "null",
      mimeType   |-> "null",
      model      |-> "null",
      budget     |-> 0,
      retryCount |-> 0,
      pending    |-> NoOutcome,   \* settled generateContent promise
      value      |-> JsNull,      \* what analyzeAudio resolved with
      thrown     |-> NoError,     \* what analyzeAudio rejected with
      calls      |-> <<>>,        \* history: generateContent requests issued
      kinds      |-> <<>>,        \* history: how each attempt ended
      waits      |-> <<>> ]       \* history: wait(ms) calls

\* The catch block treats every caught error as a quota error.
isQuotaAlways(err) == TRUE

\* const msg = error?.message || ''
\* const isQuota = msg.includes('429') || msg.includes('quota') || msg.includes('resource exhausted')
isQuota(err) ==
    LET msg == err.message
    IN  includes(msg, "429") \/ includes(msg, "quota") \/ includes(msg, "resource exhausted")

\* Off by one: three retries per tier.
canRetryThrice(retryCount) == retryCount <= 2
\* Off by one the other way: a single retry per tier.
canRetryOnce(retryCount) == retryCount < 1

\* if (retryCount < 2)
canRetry(retryCount) == retryCount < 2

\* The "+ 1" is forgotten: no wait before the first retry.
backoffFromZero(retryCount) == 2000 * retryCount

\* await wait(2000 * (retryCount + 1))
backoff(retryCount) == 2000 * (retryCount + 1)

\* The model name is not compared: every exhausted tier falls back.
isProAnyModel(model) == TRUE
\* The model name is compared with a name that is never used.
isProNoModel(model) == model = "gemini-3-pro"

\* if (model === 'gemini-3-pro-preview')
isPro(model) == model = Pro

\* The output cap is the headroom alone: the budget is not added.
generateContentFixedCap(model, budget, retryCount) ==
    [ model           |-> model,
      thinkingBudget  |-> budget,
      maxOutputTokens |-> 4096,
      retryCount      |-> retryCount ]

\* const configWithThinking = {...}; ai.models.generateContent({model, contents, config})
generateContent(model, budget, retryCount) ==
    [ model           |-> model,
      thinkingBudget  |-> budget,
      maxOutputTokens |-> budget + 4096,
      retryCount      |-> retryCount ]

\* attemptAnalysis(model, budget, retryCount) up to its first await.
attemptAnalysis(o, model, budget, retryCount) ==
    [ o EXCEPT !.pc         = "calling",
               !.model      = model,
               !.budget     = budget,
               !.retryCount = retryCount,
               !.pending    = NoOutcome,
               !.calls      = Append(@, generateContent(model, budget, retryCount)) ]

\* analyzeAudio(base64Data, mimeType, language) up to its first await.
analyzeAudio(data) ==
    attemptAnalysis([Idle EXCEPT !.base64Data = data.base64,
                                 !.mimeType   = data.mimeType],
                    Pro, ProBudget, 0)

\* What the try block of attemptAnalysis throws for a settled call
\* (NoError if it returns).
Caught(eng, out) ==
    IF out.type = "error" THEN out.error
    ELSE IF out.text = <<>> THEN Err("Error", <<"Empty response from Gemini">>)
    ELSE IF ~IsJson(out.text) THEN Err("SyntaxError", SyntaxErrorMessage(eng, out.text))
    ELSE NoError

\* The rest of attemptAnalysis once the awaited call has settled: the end of
\* the try block, or the catch block.
attemptAnalysisResume(eng, o) ==
    LET err == Caught(eng, o.pending)
    IN  IF err = NoError
        THEN [o EXCEPT !.pc = "resolved", !.value = JSONparse(o.pending.text),
                       !.kinds = Append(@, "ok")]
        ELSE IF isQuota(err) /\ canRetry(o.retryCount)
        THEN [o EXCEPT !.pc = "waiting", !.thrown = NoError,
                       !.kinds = Append(@, "quota"),
                       !.waits = Append(@, backoff(o.retryCount))]
        ELSE IF isQuota(err) /\ isPro(o.model)
        THEN attemptAnalysis([o EXCEPT !.kinds = Append(@, "quota")],
                             Flash, FlashBudget, 0)
        ELSE [o EXCEPT !.pc = "rejected", !.thrown = err,
                       !.kinds = Append(@, IF isQuota(err) THEN "quota" ELSE "fatal")]

\* The provider answers the outstanding generateContent call of r.
RemoteSettles(r, out) ==
    /\ orch[r].pc = "calling"
    /\ orch' = [orch EXCEPT ![r].pc = "returned", ![r].pending = out]
    /\ UNCHANGED <<engine, appVars, uploaderVars>>

\* attemptAnalysis of r continues after the await.
AttemptResumes(r) ==
    /\ orch[r].pc = "returned"
    /\ orch' = [orch EXCEPT ![r] = attemptAnalysisResume(engine, orch[r])]
    /\ UNCHANGED <<engine, appVars, uploaderVars>>

\* retryCount is one module-level counter instead of a parameter.
WaitElapsesSharedCount(r) ==
    /\ orch[r].pc = "waiting"
    /\ LET shared == CHOOSE n \in 0..8 :
                        /\ \E q \in Reqs : orch[q].retryCount = n
                        /\ \A q \in Reqs : orch[q].retryCount <= n
       IN  orch' = [orch EXCEPT ![r] =
                      attemptAnalysis(orch[r], orch[r].model, orch[r].budget, shared + 1)]
    /\ UNCHANGED <<engine, appVars, uploaderVars>>

\* The backoff timer of r fires: return attemptAnalysis(model, budget, retryCount + 1)
WaitElapses(r) ==
    /\ orch[r].pc = "waiting"
    /\ orch' = [orch EXCEPT ![r] =
                  attemptAnalysis(orch[r], orch[r].model, orch[r].budget,
                                  orch[r].retryCount + 1)]
    /\ UNCHANGED <<engine, appVars, uploaderVars>>

----------------------------------------------------------------------------
(* Caller: App.tsx                                                         *)

ThrottledMsg == "System is experiencing high traffic. Please wait 10 seconds and try again."
ContentBlockedMsg == "The audio content was flagged by safety filters. Please try a different sample."
GenericMsg == "Could not analyze audio. Please ensure the file is a valid audio format."

\* The catch block of handleSubmit.
UserMessage(err) ==
    LET msg == err.message
    IN  IF includes(msg, "429") \/ includes(msg, "quota") THEN ThrottledMsg
        ELSE IF includes(msg, "safety") \/ includes(msg, "blocked") THEN ContentBlockedMsg
        ELSE GenericMsg

\* handleAudioReady(data): the onAudioReady prop of the uploader.
handleAudioReady(data) ==
    /\ audioData' = data
    /\ result' = JsNull
    /\ error' = Null

\* The uploader calls onAudioReady with a converted sample or, from
\* clearAudio (button disabled while processing), with null.
AudioReady(data) ==
    /\ data = NullAudio => ~isProcessing
    /\ handleAudioReady(data)
    /\ UNCHANGED <<engine, orch, isProcessing, awaiting, uploaderVars>>

\* The button is disabled only while no sample is held.
submitDisabledNoSample == audioData = NullAudio

\* disabled={!audioData || isProcessing}
submitDisabled == audioData = NullAudio \/ isProcessing

FreeReq == CHOOSE r \in Reqs : orch[r].pc = "idle" /\ \A q \in 1..(r - 1) : orch[q].pc # "idle"

\* setError(null) is missing.
handleSubmitKeepsError ==
    /\ ~submitDisabled
    /\ audioData # NullAudio
    /\ \E r \in Reqs : orch[r].pc = "idle"
    /\ isProcessing' = TRUE
    /\ error' = error
    /\ result' = JsNull
    /\ awaiting' = FreeReq
    /\ orch' = [orch EXCEPT ![FreeReq] = analyzeAudio(audioData)]
    /\ UNCHANGED <<engine, audioData, uploaderVars>>

\* Click on "Analyze Audio" (disabled={!audioData || isProcessing}), up to
\* the await of analyzeAudio.
handleSubmit ==
    /\ ~submitDisabled
    /\ audioData # NullAudio
    /\ \E r \in Reqs : orch[r].pc = "idle"
    /\ isProcessing' = TRUE
    /\ error' = Null
    /\ result' = JsNull
    /\ awaiting' = FreeReq
    /\ orch' = [orch EXCEPT ![FreeReq] = analyzeAudio(audioData)]
    /\ UNCHANGED <<engine, audioData, uploaderVars>>

\* handleSubmit continues after the await: setResult, or the catch block,
\* then finally.
handleSubmitResumes ==
    /\ awaiting \in Reqs
    /\ orch[awaiting].pc \in {"resolved", "rejected"}
    /\ IF orch[awaiting].pc = "resolved"
       THEN /\ result' = orch[awaiting].value
            /\ error' = error
       ELSE /\ error' = UserMessage(orch[awaiting].thrown)
            /\ result' = result
    /\ isProcessing' = FALSE
    /\ awaiting' = 0
    /\ orch' = [orch EXCEPT ![awaiting] = Idle]
    /\ UNCHANGED <<engine, audioData, uploaderVars>>

----------------------------------------------------------------------------

Init ==
    /\ engine \in Engines
    /\ orch = [r \in Reqs |-> Idle]
    /\ audioData = NullAudio
    /\ isProcessing = FALSE
    /\ result = JsNull
    /\ error = Null
    /\ awaiting = 0
    /\ file = Null
    /\ audioUrl = Null
    /\ isRecording = FALSE
    /\ recorder = "none"
    /\ stopEvents = 0
    /\ micPending = FALSE
    /\ conversions = [d \in AudioDatas |-> 0]

Next ==
    \/ \E data \in AudioDatas \cup {NullAudio} : AudioReady(data)
    \/ handleSubmit
    \/ \E r \in Reqs, out \in Outcomes : RemoteSettles(r, out)
    \/ \E r \in Reqs : AttemptResumes(r)
    \/ \E r \in Reqs : WaitElapses(r)
    \/ handleSubmitResumes

Spec == Init /\ [][Next]_vars

\* The provider answers every call and every timer fires.
FairSpec ==
    /\ Spec
    /\ \A r \in Reqs : WF_vars(\E out \in Outcomes : RemoteSettles(r, out))
    /\ \A r \in Reqs : WF_vars(AttemptResumes(r))
    /\ \A r \in Reqs : WF_vars(WaitElapses(r))

TypeOK ==
    /\ engine \in Engines
    /\ \A r \in Reqs :
          orch[r].pc \in {"idle", "calling", "returned", "waiting", "resolved", "rejected"}
    /\ audioData \in AudioDatas \cup {NullAudio}
    /\ isProcessing \in BOOLEAN
    /\ awaiting \in 0..NumReqs

----------------------------------------------------------------------------
(* Uploader: components/AudioUploader.tsx                                  *)

\* if (selectedFile.size > 10 * 1024 * 1024)
MaxFileSize == 10 * 1024 * 1024

\* Files the user can pick or drop: two audio samples, a file that is not
\* audio and an audio file over the size limit.
Files ==
    { [name |-> "sample.wav",  type |-> "audio/wav",  size |-> 96044,   base64 |-> "UklGRg"],
      [name |-> "sample.webm", type |-> "audio/webm", size |-> 48210,   base64 |-> "GkXfow"],
      [name |-> "notes.txt",   type |-> "text/plain", size |-> 12,      base64 |-> "aGVsbG8"],
      [name |-> "long.wav",    type |-> "audio/wav",  size |-> MaxFileSize + 1,
                                                                         base64 |-> "UklGRg"] }

\* new File([blob], "recording.webm", { type: 'audio/webm' })
Recording ==
    [name |-> "recording.webm", type |-> "audio/webm", size |-> 48210, base64 |-> "GkXfow"]

\* selectedFile.type.startsWith('audio/')
startsWithAudio(type) == type \in {"audio/wav", "audio/webm"}

\* URL.createObjectURL(blob): the URL stands for the blob it was made from.
createObjectURL(blob) == blob.name

\* convertToBase64(blob): the data URL is "data:<type>;base64,<payload>",
\* split(',')[1] is the payload.
convertToBase64(blob) ==
    LET dataUrl == <<blob.type, blob.base64>>
    IN  dataUrl[2]

\* The argument of onAudioReady for a converted blob.
AudioDataOf(blob) == [base64 |-> convertToBase64(blob), mimeType |-> blob.type]

\* {!audioUrl && !isRecording ? <drop zone and record button> : ...}
showsEmptyView == audioUrl = Null /\ ~isRecording
\* The loaded-sample view, with the player and the clear button.
showsLoadedView == audioUrl # Null /\ ~isRecording

\* handleFile(selectedFile), up to the await of convertToBase64.  The drop
\* zone is only rendered in the empty view and takes no pointer events
\* while processing.
handleFile(f) ==
    /\ showsEmptyView
    /\ ~isProcessing
    /\ IF ~startsWithAudio(f.type) \/ f.size > MaxFileSize
       THEN UNCHANGED vars
       ELSE /\ conversions[AudioDataOf(f)] < MaxPending
            /\ file' = f.name
            /\ audioUrl' = createObjectURL(f)
            /\ conversions' = [conversions EXCEPT ![AudioDataOf(f)] = @ + 1]
            /\ UNCHANGED <<engine, orch, appVars, isRecording, recorder,
                           stopEvents, micPending>>

\* reader.onloadend: handleFile or onstop continues after the await and
\* calls onAudioReady.
ConversionDone(d) ==
    /\ conversions[d] > 0
    /\ conversions' = [conversions EXCEPT ![d] = @ - 1]
    /\ handleAudioReady(d)
    /\ UNCHANGED <<engine, orch, isProcessing, awaiting, file, audioUrl,
                   isRecording, recorder, stopEvents, micPending>>

\* reader.onerror: the awaited promise rejects, onAudioReady is not called.
ConversionError(d) ==
    /\ conversions[d] > 0
    /\ conversions' = [conversions EXCEPT ![d] = @ - 1]
    /\ UNCHANGED <<engine, orch, appVars, file, audioUrl, isRecording,
                   recorder, stopEvents, micPending>>

\* Click on "Record Voice" (empty view, disabled={isProcessing}), up to the
\* await of getUserMedia.
startRecording ==
    /\ showsEmptyView
    /\ ~isProcessing
    /\ ~micPending
    /\ micPending' = TRUE
    /\ UNCHANGED <<engine, orch, appVars, file, audioUrl, isRecording,
                   recorder, stopEvents, conversions>>

\* getUserMedia resolves: mediaRecorder.start(); setIsRecording(true)
MicGranted ==
    /\ micPending
    /\ micPending' = FALSE
    /\ recorder' = "recording"
    /\ isRecording' = TRUE
    /\ UNCHANGED <<engine, orch, appVars, file, audioUrl, stopEvents, conversions>>

\* getUserMedia rejects: the catch block alerts.
MicDenied ==
    /\ micPending
    /\ micPending' = FALSE
    /\ UNCHANGED <<engine, orch, appVars, file, audioUrl, isRecording,
                   recorder, stopEvents, conversions>>

\* Click on "Stop Recording" (recording view).
stopRecording ==
    /\ isRecording
    /\ recorder = "recording"
    /\ stopEvents < MaxPending
    /\ recorder' = "inactive"
    /\ stopEvents' = stopEvents + 1
    /\ isRecording' = FALSE
    /\ UNCHANGED <<engine, orch, appVars, file, audioUrl, micPending, conversions>>

\* mediaRecorder.onstop, up to the await of convertToBase64.
onstop ==
    /\ stopEvents > 0
    /\ conversions[AudioDataOf(Recording)] < MaxPending
    /\ stopEvents' = stopEvents - 1
    /\ audioUrl' = createObjectURL(Recording)
    /\ file' = Recording.name
    /\ conversions' = [conversions EXCEPT ![AudioDataOf(Recording)] = @ + 1]
    /\ UNCHANGED <<engine, orch, appVars, isRecording, recorder, micPending>>

\* Click on the clear button (loaded view, disabled={isProcessing}).
clearAudio ==
    /\ showsLoadedView
    /\ ~isProcessing
    /\ file' = Null
    /\ audioUrl' = Null
    /\ handleAudioReady(NullAudio)
    /\ UNCHANGED <<engine, orch, isProcessing, awaiting, isRecording, recorder,
                   stopEvents, micPending, conversions>>

\* The remote answers the App and the uploader are exercised with.
UiOutcomes ==
    { Response(ObjectText("HUMAN", "0.92", "flat pitch, no breath artifacts")),
      Response(<<"null">>),
      Response(<<>>),
      Rejection(<<"429">>),
      Rejection(<<"safety">>) }

\* The whole page: uploader, App and orchestrator.
UiNext ==
    \/ \E f \in Files : handleFile(f)
    \/ \E d \in AudioDatas : ConversionDone(d)
    \/ \E d \in AudioDatas : ConversionError(d)
    \/ startRecording
    \/ MicGranted
    \/ MicDenied
    \/ stopRecording
    \/ onstop
    \/ clearAudio
    \/ handleSubmit
    \/ \E r \in Reqs, out \in UiOutcomes : RemoteSettles(r, out)
    \/ \E r \in Reqs : AttemptResumes(r)
    \/ \E r \in Reqs : WaitElapses(r)
    \/ handleSubmitResumes

UiSpec == Init /\ [][UiNext]_vars

----------------------------------------------------------------------------
(* analyzeAudio called by several callers at once                          *)

\* A caller invokes the exported analyzeAudio; r names the new closure.
Invoke(r, data) ==
    /\ orch[r].pc = "idle"
    /\ orch' = [orch EXCEPT ![r] = analyzeAudio(data)]
    /\ UNCHANGED <<engine, appVars, uploaderVars>>

\* The caller of r takes the settled promise.
Consume(r) ==
    /\ orch[r].pc \in {"resolved", "rejected"}
    /\ orch' = [orch EXCEPT ![r] = Idle]
    /\ UNCHANGED <<engine, appVars, uploaderVars>>

\* The remote answers concurrent invocations are exercised with.
ConcOutcomes ==
    { Response(ObjectText("AI_GENERATED", "0.92", "flat pitch, no breath artifacts")),
      Response(<<"quota">>),
      Rejection(<<"quota">>),
      Rejection(<<"internal">>) }

\* The sample concurrent invocations are exercised with.
ConcSamples == {[base64 |-> "UklGRg", mimeType |-> "audio/wav"]}

ConcNext ==
    \/ \E r \in Reqs, data \in ConcSamples : Invoke(r, data)
    \/ \E r \in Reqs, out \in ConcOutcomes : RemoteSettles(r, out)
    \/ \E r \in Reqs : AttemptResumes(r)
    \/ \E r \in Reqs : WaitElapses(r)
    \/ \E r \in Reqs : Consume(r)

ConcSpec == Init /\ [][ConcNext]_vars

----------------------------------------------------------------------------
(* Properties                                                              *)

\* A transient failure as the specification words it: the error text
\* carries a rate-limit, quota or resource-exhaustion indicator.
Throttling(err) ==
    \E i \in 1..Len(err.message) :
        err.message[i] \in {"429", "quota", "resource exhausted"}

\* A safety / content-policy signal.
PolicyBlocked(err) ==
    \E i \in 1..Len(err.message) : err.message[i] \in {"safety", "blocked"}

Terminal(o) == o.pc \in {"resolved", "rejected"}
Tiers(o) == [i \in 1..Len(o.calls) |-> o.calls[i].model]
CallsOn(o, model) == Cardinality({i \in 1..Len(o.calls) : o.calls[i].model = model})
AllQuota(o) == \A i \in 1..Len(o.kinds) : o.kinds[i] = "quota"
FullLadder == <<Pro, Pro, Pro, Flash, Flash, Flash>>

\* Once analyzeAudio has settled, the invocation does nothing more: it stays
\* as it is until its promise is consumed.
SettlesOnce ==
    \A r \in Reqs :
        Terminal(orch[r]) => (orch'[r] = orch[r] \/ orch'[r] = Idle)

\* C1: when every attempt of a request has failed with a transient error,
\* the calls made so far are a prefix of 3 primary-tier calls followed by
\* 3 secondary-tier calls, and the request has ended only if all 6 were
\* made, in which case it has failed with the transient error.
C1_AllTransientMakesSixCalls ==
    \A r \in Reqs :
        AllQuota(orch[r]) =>
            /\ Len(orch[r].calls) <= 6
            /\ Tiers(orch[r]) = SubSeq(FullLadder, 1, Len(orch[r].calls))
            /\ Terminal(orch[r]) =>
                  /\ orch[r].pc = "rejected"
                  /\ Throttling(orch[r].thrown)
                  /\ Len(orch[r].calls) = 6
                  /\ CallsOn(orch[r], Pro) = 3
                  /\ CallsOn(orch[r], Flash) = 3

C1_Witness ==
    \E r \in Reqs :
        /\ orch[r].pc = "rejected"
        /\ Len(orch[r].kinds) = 6
        /\ AllQuota(orch[r])

\* C2: a request makes at most 6 remote calls, at most 3 per tier; it settles
\* at most once; and once started it always eventually settles.
C2_AlwaysSettlesOnceWithinSixCalls ==
    /\ [](\A r \in Reqs :
            /\ Len(orch[r].calls) <= 6
            /\ CallsOn(orch[r], Pro) <= 3
            /\ CallsOn(orch[r], Flash) <= 3)
    /\ [][SettlesOnce]_vars
    /\ \A r \in Reqs : (orch[r].pc # "idle") ~> Terminal(orch[r])

C2_Witness ==
    \E r \in Reqs :
        /\ orch[r].pc = "resolved"
        /\ Len(orch[r].calls) = 6

\* C3: when an attempt ends in an error that is not transient, the request
\* is rejected with that very error in the same step, with no further call,
\* no further wait and no tier switch; a request whose first attempt failed
\* that way made one call and no wait.
C3_NonTransientStep ==
    \A r \in Reqs :
        LET err == Caught(engine, orch[r].pending)
        IN  (orch[r].pc = "returned" /\ err # NoError /\ ~Throttling(err)
                /\ orch'[r] # orch[r])
            => /\ orch'[r].pc = "rejected"
               /\ orch'[r].thrown = err
               /\ orch'[r].calls = orch[r].calls
               /\ orch'[r].waits = orch[r].waits
               /\ orch'[r].model = orch[r].model

C3_NonTransientFailsAtOnce ==
    /\ [][C3_NonTransientStep]_vars
    /\ [](\A r \in Reqs :
            /\ \A i \in 1..Len(orch[r].kinds) :
                  orch[r].kinds[i] = "fatal" =>
                      /\ i = Len(orch[r].calls)
                      /\ orch[r].pc = "rejected"
                      /\ ~Throttling(orch[r].thrown)
            /\ (Len(orch[r].kinds) > 0 /\ orch[r].kinds[1] = "fatal") =>
                  (Len(orch[r].calls) = 1 /\ orch[r].waits = <<>>))

C3_Witness ==
    \E r \in Reqs :
        /\ orch[r].pc = "rejected"
        /\ orch[r].kinds = <<"quota", "quota", "quota", "fatal">>
        /\ ~Throttling(orch[r].thrown)
        /\ orch[r].model = Flash

\* C4: a call to the secondary tier is made only as the 4th call, after
\* three primary-tier attempts that all failed transiently; an attempt that
\* succeeds is the last one and resolves the request.
C4_FallbackOnlyAfterThreeTransient ==
    \A r \in Reqs :
        /\ \A i \in 1..Len(orch[r].calls) :
              orch[r].calls[i].model = Flash =>
                  /\ i >= 4
                  /\ \A j \in 1..3 :
                        orch[r].calls[j].model = Pro /\ orch[r].kinds[j] = "quota"
        /\ \A i \in 1..Len(orch[r].kinds) :
              orch[r].kinds[i] = "ok" =>
                  /\ i = Len(orch[r].calls)
                  /\ orch[r].pc = "resolved"
                  /\ (i <= 3 => CallsOn(orch[r], Flash) = 0)

C4_Witness ==
    \E r \in Reqs :
        /\ orch[r].pc = "resolved"
        /\ orch[r].kinds = <<"quota", "ok">>
        /\ Tiers(orch[r]) = <<Pro, Pro>>

\* An object that has the three AnalysisResult fields.
HasResultFields(v) == v.kind = "object" /\ v.classification # "undefined"

\* C5: every result object analyzeAudio resolves with has a confidence
\* between 0.0 and 1.0 (0 and 100 hundredths): a body with a confidence
\* outside that interval does not resolve the request.
C5_ConfidenceInUnitInterval ==
    \A r \in Reqs :
        (orch[r].pc = "resolved" /\ HasResultFields(orch[r].value)) =>
            (orch[r].value.confidence >= 0 /\ orch[r].value.confidence <= 100)

\* C6: every result object analyzeAudio resolves with has the
\* classification AI_GENERATED or HUMAN: a body with another classification
\* string does not resolve the request.
C6_ClassificationIsEnumerated ==
    \A r \in Reqs :
        (orch[r].pc = "resolved" /\ HasResultFields(orch[r].value)) =>
            orch[r].value.classification \in {"AI_GENERATED", "HUMAN"}

\* C7: when the remote call returned a body that is empty or does not
\* parse, the request is rejected in that step with the empty-response or
\* parse error, and no call and no wait is added.
C7_Step ==
    \A r \in Reqs :
        (/\ orch[r].pc = "returned"
         /\ orch[r].pending.type = "response"
         /\ ~IsJson(orch[r].pending.text)
         /\ orch'[r] # orch[r])
        => /\ orch'[r].pc = "rejected"
           /\ orch'[r].thrown.name \in {"Error", "SyntaxError"}
           /\ orch'[r].calls = orch[r].calls
           /\ orch'[r].waits = orch[r].waits

C7_UnparsableBodyFailsAtOnce == [][C7_Step]_vars

\* C8: a request is rejected with a transient error only after the full
\* ladder - 6 attempts that all failed transiently, 3 on the primary tier
\* then 3 on the secondary tier; a transient failure of any earlier attempt
\* leaves the request running.
C8_ThrottlingSurfacesOnlyAfterLadder ==
    \A r \in Reqs :
        /\ (orch[r].pc = "rejected" /\ Throttling(orch[r].thrown)) =>
              /\ orch[r].kinds = <<"quota", "quota", "quota", "quota", "quota", "quota">>
              /\ Tiers(orch[r]) = FullLadder
        /\ (/\ Len(orch[r].kinds) \in 1..5
            /\ orch[r].kinds[Len(orch[r].kinds)] = "quota") =>
              /\ orch[r].pc \in {"waiting", "calling", "returned"}
              /\ orch[r].thrown = NoError

C8_Witness ==
    \E r \in Reqs :
        /\ orch[r].pc = "rejected"
        /\ Throttling(orch[r].thrown)
        /\ Tiers(orch[r]) = FullLadder

\* C9: when handleSubmit receives the error of a request that exhausted the
\* ladder on transient failures, the message it shows is the Throttled one.
C9_Step ==
    (/\ awaiting \in Reqs
     /\ orch[awaiting].pc = "rejected"
     /\ Throttling(orch[awaiting].thrown)
     /\ awaiting' = 0)
    => error' = ThrottledMsg

C9_ExhaustedLadderShowsThrottled == [][C9_Step]_vars

\* C10: an attempt that ends in a provider error carrying a safety or
\* content-policy signal rejects the request in that step with that error
\* (no retry, no fallback), and handleSubmit then shows the ContentBlocked
\* message.
C10_Step ==
    /\ \A r \in Reqs :
          (/\ orch[r].pc = "returned"
           /\ orch[r].pending.type = "error"
           /\ PolicyBlocked(orch[r].pending.error)
           /\ orch'[r] # orch[r])
          => /\ orch'[r].pc = "rejected"
             /\ orch'[r].thrown = orch[r].pending.error
             /\ orch'[r].calls = orch[r].calls
             /\ orch'[r].waits = orch[r].waits
    /\ (/\ awaiting \in Reqs
        /\ orch[awaiting].pc = "rejected"
        /\ orch[awaiting].thrown.name = "ApiError"
        /\ PolicyBlocked(orch[awaiting].thrown)
        /\ awaiting' = 0)
       => error' = ContentBlockedMsg

C10_PolicyBlockIsFinal == [][C10_Step]_vars

\* C11: a request whose three primary-tier attempts failed transiently and
\* whose first secondary-tier call returned a well-formed body has made
\* exactly 4 calls - Pro, Pro, Pro, Flash - and resolves with exactly the
\* object the body denotes.
WellFormedBody(t) ==
    /\ Len(t) = 8
    /\ t[3] \in {"AI_GENERATED", "HUMAN"}
    /\ t[5] \in {"0", "0.92", "1"}

C11_FallbackResultIsBody ==
    \A r \in Reqs :
        (/\ orch[r].pc = "resolved"
         /\ orch[r].kinds = <<"quota", "quota", "quota", "ok">>
         /\ WellFormedBody(orch[r].pending.text))
        => /\ Tiers(orch[r]) = <<Pro, Pro, Pro, Flash>>
           /\ orch[r].value.kind = "object"
           /\ orch[r].value.classification = orch[r].pending.text[3]
           /\ orch[r].value.confidence = NumberOf(orch[r].pending.text[5])
           /\ orch[r].value.explanation = orch[r].pending.text[7]

C11_Witness ==
    \E r \in Reqs :
        /\ orch[r].pc = "resolved"
        /\ Tiers(orch[r]) = <<Pro, Pro, Pro, Flash>>
        /\ orch[r].value =
              JsonValue("object", "AI_GENERATED", 92, "flat pitch, no breath artifacts")

\* C12: the waits of a request are 2000, 4000 on the primary tier and 2000,
\* 4000 on the secondary tier, in that order; there is exactly one wait per
\* retry call (plus the one in progress), so none precedes the first call of
\* a tier; a retry call is on the tier of the call before it, with the count
\* one higher.
RetryCalls(o) == {i \in 1..Len(o.calls) : o.calls[i].retryCount > 0}

C12_LinearBackoffPerTier ==
    \A r \in Reqs :
        LET o == orch[r]
        IN  /\ o.waits = SubSeq(<<2000, 4000, 2000, 4000>>, 1, Len(o.waits))
            /\ Len(o.waits) =
                  Cardinality(RetryCalls(o)) + (IF o.pc = "waiting" THEN 1 ELSE 0)
            /\ \A i \in 1..Len(o.calls) :
                  IF i \in {1, 4}
                  THEN o.calls[i].retryCount = 0
                  ELSE /\ o.calls[i].retryCount = o.calls[i - 1].retryCount + 1
                       /\ o.calls[i].model = o.calls[i - 1].model
            /\ o.pc = "waiting" =>
                  o.waits[Len(o.waits)] = 2000 * (o.retryCount + 1)

C12_Witness ==
    \E r \in Reqs :
        /\ orch[r].waits = <<2000, 4000, 2000, 4000>>
        /\ orch[r].pc = "calling"
        /\ orch[r].retryCount = 2
        /\ orch[r].model = Flash

\* C13: every call carries the reasoning budget of its tier and an output
\* cap of that budget plus 4096: 2048 and 6144 on the primary tier, 1024
\* and 5120 on the secondary tier.
C13_BudgetAndCapPerTier ==
    \A r \in Reqs :
        \A i \in 1..Len(orch[r].calls) :
            LET c == orch[r].calls[i]
            IN  /\ c.model \in {Pro, Flash}
                /\ c.model = Pro =>
                      (c.thinkingBudget = 2048 /\ c.maxOutputTokens = 6144)
                /\ c.model = Flash =>
                      (c.thinkingBudget = 1024 /\ c.maxOutputTokens = 5120)
                /\ c.maxOutputTokens = c.thinkingBudget + 4096

C13_Witness ==
    \E r \in Reqs :
        /\ Len(orch[r].calls) = 6
        /\ orch[r].calls[3].maxOutputTokens = 6144
        /\ orch[r].calls[6].maxOutputTokens = 5120

\* C16: the first secondary-tier call is call 4 with the count reset to 0;
\* no primary-tier call follows a secondary-tier call; the secondary tier
\* gets at most 3 calls, and a request whose 6 attempts all failed
\* transiently is rejected.
C16_FallbackIsOneWay ==
    \A r \in Reqs :
        LET o == orch[r]
        IN  /\ \A i \in 1..Len(o.calls) :
                  o.calls[i].model = Flash =>
                      /\ \A j \in i..Len(o.calls) : o.calls[j].model = Flash
                      /\ o.calls[i].retryCount = i - 4
            /\ CallsOn(o, Flash) <= 3
            /\ (Len(o.kinds) = 6 /\ AllQuota(o)) =>
                  (o.pc = "rejected" /\ Throttling(o.thrown))

C16_Witness ==
    \E r \in Reqs :
        /\ orch[r].pc = "calling"
        /\ Len(orch[r].calls) = 4
        /\ orch[r].model = Flash
        /\ orch[r].retryCount = 0

\* The total of the waits of a request.
RECURSIVE SumSeq(_)
SumSeq(q) == IF q = <<>> THEN 0 ELSE q[1] + SumSeq(Tail(q))

\* C17 as stated: the waits of a request add up to at most 6000 ms.
C17_BackoffAtMostSixSeconds ==
    \A r \in Reqs : SumSeq(orch[r].waits) <= 6000

\* C17 amended: the waits of a request add up to at most 12000 ms (2000 +
\* 4000 on each of the two tiers).
C17_BackoffAtMostTwelveSeconds ==
    \A r \in Reqs : SumSeq(orch[r].waits) <= 12000

C17_Witness ==
    \E r \in Reqs : SumSeq(orch[r].waits) = 12000

\* An analyzeAudio invocation whose promise the caller has not consumed.
Started(r) == orch[r].pc # "idle"

\* C15: at most one analyzeAudio invocation of the App exists at a time; it
\* is the one handleSubmit awaits, the App is processing for as long as it
\* exists, and no other invocation is started meanwhile.
C15_OneRequestInFlight ==
    /\ Cardinality({r \in Reqs : Started(r)}) <= 1
    /\ \A r \in Reqs : Started(r) => (isProcessing /\ awaiting = r)
    /\ isProcessing => submitDisabled

C15_Witness ==
    \E r \in Reqs :
        /\ orch[r].pc = "waiting"
        /\ audioData # NullAudio
        /\ audioData.base64 # orch[r].base64Data

\* C18: when handleSubmit continues after a settled request, isProcessing
\* becomes false and exactly one of result and error is set: result after a
\* resolved request, error after a rejected one.
C18_Step ==
    (awaiting \in Reqs /\ Terminal(orch[awaiting]) /\ awaiting' = 0)
    => /\ isProcessing' = FALSE
       /\ IF orch[awaiting].pc = "resolved"
          THEN result' # JsNull /\ error' = Null
          ELSE error' # Null /\ result' = JsNull

C18_SubmissionEndsWithResultOrError == [][C18_Step]_vars

\* C19: result and error are never both set; a step that starts processing
\* or changes the held sample leaves both null.
C19_Step ==
    ((~isProcessing /\ isProcessing') \/ audioData' # audioData)
    => (result' = JsNull /\ error' = Null)

C19_ResultAndErrorExclusive ==
    /\ [](~(result # JsNull /\ error # Null))
    /\ [][C19_Step]_vars

C19_Witness ==
    /\ result # JsNull
    /\ error = Null
    /\ ~isProcessing
    /\ audioData # NullAudio

\* C20: the App holds a sample only while the uploader shows one.
C20_SampleHeldOnlyWhileShown ==
    audioData # NullAudio => audioUrl # Null

\* The i-th call of the ladder.
LadderCall(i) ==
    [ model           |-> IF i <= 3 THEN Pro ELSE Flash,
      thinkingBudget  |-> IF i <= 3 THEN 2048 ELSE 1024,
      maxOutputTokens |-> IF i <= 3 THEN 6144 ELSE 5120,
      retryCount      |-> (i - 1) % 3 ]

\* How an attempt that ended with err is classified.
KindOf(err) ==
    IF err = NoError THEN "ok" ELSE IF Throttling(err) THEN "quota" ELSE "fatal"

\* The calls, waits and outcome of o are those its own attempt outcomes
\* (kinds) and its own position (pc) determine.
OwnLadder(o) ==
    LET n == Len(o.kinds)
        c == Len(o.calls)
    IN  /\ c = n + (IF o.pc \in {"calling", "returned"} THEN 1 ELSE 0)
        /\ \A i \in 1..c : o.calls[i] = LadderCall(i)
        /\ o.waits = SubSeq(<<2000, 4000, 2000, 4000>>, 1,
                            Cardinality(RetryCalls(o)) + (IF o.pc = "waiting" THEN 1 ELSE 0))
        /\ \A i \in 1..(n - 1) : o.kinds[i] = "quota"
        /\ o.pc = "resolved" <=> (n > 0 /\ o.kinds[n] = "ok")
        /\ o.pc = "rejected" <=>
              (n > 0 /\ (o.kinds[n] = "fatal" \/ (n = 6 /\ o.kinds[n] = "quota")))
        /\ o.pc = "waiting" <=> (n \in {1, 2, 4, 5} /\ c = n /\ o.kinds[n] = "quota")
        /\ o.pc \in {"waiting", "resolved", "rejected"} =>
              o.kinds[n] = KindOf(Caught(engine, o.pending))

\* The next step of invocation r.
StepOf(r) ==
    \/ \E out \in ConcOutcomes : RemoteSettles(r, out)
    \/ AttemptResumes(r)
    \/ WaitElapses(r)

\* C14: with several invocations in flight, each one's calls, tiers, waits
\* and outcome follow from its own attempt outcomes alone; a step changes
\* one invocation and leaves the others as they are; and an invocation that
\* is not settled can take its step whatever the others are doing, a
\* backoff wait included.
C14_Step ==
    \A r, q \in Reqs : (r # q /\ orch'[r] # orch[r]) => orch'[q] = orch[q]

C14_RequestsAreIndependent ==
    /\ [](\A r \in Reqs : OwnLadder(orch[r]))
    /\ [](\A r \in Reqs :
            orch[r].pc \in {"calling", "returned", "waiting"} => ENABLED StepOf(r))
    /\ [][C14_Step]_vars

C14_Witness ==
    /\ orch[1].pc = "waiting"
    /\ orch[1].model = Pro
    /\ orch[1].retryCount = 0
    /\ orch[2].pc = "calling"
    /\ orch[2].model = Flash
    /\ orch[2].retryCount = 2

\* C21: a result is set only by the continuation of a request whose payload
\* is the sample the App holds at that moment, and a step that changes the
\* held sample while a result is shown clears the result; so a displayed
\* result always belongs to the held sample.
C21_Step ==
    /\ (/\ awaiting \in Reqs
        /\ orch[awaiting].pc = "resolved"
        /\ awaiting' = 0
        /\ result' # JsNull)
       => /\ audioData'.base64 = orch[awaiting].base64Data
          /\ audioData'.mimeType = orch[awaiting].mimeType
    /\ (result # JsNull /\ audioData' # audioData) => result' = JsNull

C21_ResultBelongsToHeldSample == [][C21_Step]_vars

====
